---- MODULE Spec2Model ----
(***************************************************************************)
(* SKINNY-128-128 Encrypt (FELICS), src/SKINNY-128-128/encrypt.c.          *)
(*                                                                         *)
(* The file holds three hand-written assembler bodies of                   *)
(*     void Encrypt(uint8_t *block, uint8_t *roundKeys)                    *)
(* selected at build time (AVR, MSP, ARM).  Each body is modelled as the   *)
(* list of its instructions, run by an interpreter of that instruction     *)
(* set over a register file, a byte-addressed memory, a zero flag and a    *)
(* stack.  One action runs one straight-line section of a body (prologue,  *)
(* load, the steps of a round, the loop branch, store, epilogue).          *)
(*                                                                         *)
(* Representation notes                                                    *)
(*  - AVR registers are bytes (0..255), pointer pairs X=r27:r26,           *)
(*    Y=r29:r28, Z=r31:r30.                                                *)
(*  - MSP430 registers are 16-bit integers (0..65535).                     *)
(*  - ARM registers are 32-bit words kept as four byte lanes               *)
(*    <<b0,b1,b2,b3>>, b0 the least significant: every shift, rotate and   *)
(*    bit-field of the body is a multiple of 8 bits, and TLC's integers    *)
(*    are too narrow for 2^32.  Additions carry across the lanes           *)
(*    (mod 2^32).                                                          *)
(*  - keyReads and rounds are history variables: the log of the offsets    *)
(*    (from the roundKeys base) of the bytes loaded at or above that       *)
(*    base, and the number of completed passes of the loop body.           *)
(***************************************************************************)
EXTENDS Integers, Sequences, FiniteSets, TLC

VARIABLES
  arch,       \* "AVR" | "MSP" | "ARM": which body the build selected
  scenario2,  \* AVR only: SCENARIO == SCENARIO_2 (round keys read with lpm)
  pc,         \* the section of the body to run next
  regs,       \* register file of the selected body
  zflag,      \* the zero flag of the status register
  mem,        \* data memory: block, SBOX, roundKeys and guard bytes
  stack,      \* the values pushed and not yet popped
  keyReads,   \* history: offsets of the roundKeys bytes read, in order
  rounds,     \* history: completed passes of the loop body
  iseed,      \* which input (block and roundKeys) the caller passed
  jseed,      \* which garbage the registers and the flag held at entry
  twin        \* further machines run beside this one (MixSpec only)

vars == <<arch, scenario2, pc, regs, zflag, mem, stack, keyReads, rounds,
          iseed, jseed, twin>>

----------------------------------------------------------------------------
(* Bounds of the model *)

\* inputs 0..MaxInputSeed are tried (input 0: an all-zero block and key)
MaxInputSeed == 2
\* register garbage 0..MaxJunkSeed is tried
MaxJunkSeed == 1
\* guard bytes kept below the block and above roundKeys
Guard == 8

----------------------------------------------------------------------------
(* Program constants and memory layout *)

\* ldi r24, 40 / mov #40, r13 / mov r8, #40
NumRounds == 40
\* bytes of roundKeys one round consumes (eight ld z+ / xor.b @r14+ / adds #8)
ChunkLen == 8
\* the constant 0x02 (ldi r25, 0x02 / xor.b #0x0002 / eors #0x02)
RoundConst == 2
BlockLen == 16
KeyLen == NumRounds * ChunkLen

\* where the caller's buffers and the SBOX table lie (SBOX 256-byte aligned)
BlockBase == 496
SboxBase == 512
KeyBase == 768

MemLo == BlockBase - Guard
MemHi == KeyBase + KeyLen + Guard - 1
Addr == MemLo..MemHi
BlockAddrs == BlockBase..(BlockBase + BlockLen - 1)
SboxAddrs == SboxBase..(SboxBase + 255)
KeyAddrs == KeyBase..(KeyBase + KeyLen - 1)

\* the SKINNY 8-bit S-box (constants.h), entry v at SBOX[v + 1]
SBOX ==
  <<
    101, 76, 106, 66, 75, 99, 67, 107, 85, 117, 90, 122, 83, 115, 91, 123,
    53, 140, 58, 129, 137, 51, 128, 59, 149, 37, 152, 42, 144, 35, 153, 43,
    229, 204, 232, 193, 201, 224, 192, 233, 213, 245, 216, 248, 208, 240, 217, 249,
    165, 28, 168, 18, 27, 160, 19, 169, 5, 181, 10, 184, 3, 176, 11, 185,
    50, 136, 60, 133, 141, 52, 132, 61, 145, 34, 156, 44, 148, 36, 157, 45,
    98, 74, 108, 69, 77, 100, 68, 109, 82, 114, 92, 124, 84, 116, 93, 125,
    161, 26, 172, 21, 29, 164, 20, 173, 2, 177, 12, 188, 4, 180, 13, 189,
    225, 200, 236, 197, 205, 228, 196, 237, 209, 241, 220, 252, 212, 244, 221, 253,
    54, 142, 56, 130, 139, 48, 131, 57, 150, 38, 154, 40, 147, 32, 155, 41,
    102, 78, 104, 65, 73, 96, 64, 105, 86, 118, 88, 120, 80, 112, 89, 121,
    166, 30, 170, 17, 25, 163, 16, 171, 6, 182, 8, 186, 0, 179, 9, 187,
    230, 206, 234, 194, 203, 227, 195, 235, 214, 246, 218, 250, 211, 243, 219, 251,
    49, 138, 62, 134, 143, 55, 135, 63, 146, 33, 158, 46, 151, 39, 159, 47,
    97, 72, 110, 70, 79, 103, 71, 111, 81, 113, 94, 126, 87, 119, 95, 127,
    162, 24, 174, 22, 31, 167, 23, 175, 1, 178, 14, 190, 7, 183, 15, 191,
    226, 202, 238, 198, 207, 231, 199, 239, 210, 242, 222, 254, 215, 247, 223, 255
  >>

----------------------------------------------------------------------------
(* Bitwise operations on bytes, 16-bit words and 32-bit lane words *)

RECURSIVE XorBits(_, _, _)
XorBits(a, b, n) ==
  IF n = 0 THEN 0
  ELSE ((a + b) % 2) + 2 * XorBits(a \div 2, b \div 2, n - 1)

RECURSIVE AndBits(_, _, _)
AndBits(a, b, n) ==
  IF n = 0 THEN 0
  ELSE ((a % 2) * (b % 2)) + 2 * AndBits(a \div 2, b \div 2, n - 1)

\* nibble tables, built once
Xor4 == [a \in 0..15 |-> [b \in 0..15 |-> XorBits(a, b, 4)]]
And4 == [a \in 0..15 |-> [b \in 0..15 |-> AndBits(a, b, 4)]]

Xor8(a, b) == 16 * Xor4[a \div 16][b \div 16] + Xor4[a % 16][b % 16]
And8(a, b) == 16 * And4[a \div 16][b \div 16] + And4[a % 16][b % 16]

Xor16(a, b) == 256 * Xor8(a \div 256, b \div 256) + Xor8(a % 256, b % 256)

XorW(a, b) == <<Xor8(a[1], b[1]), Xor8(a[2], b[2]), Xor8(a[3], b[3]), Xor8(a[4], b[4])>>
AndW(a, b) == <<And8(a[1], b[1]), And8(a[2], b[2]), And8(a[3], b[3]), And8(a[4], b[4])>>

\* an immediate below 2^31 as a lane word, and a lane word below 2^31 as a number
ImmW(k) == <<k % 256, (k \div 256) % 256, (k \div 65536) % 256, (k \div 16777216) % 256>>
ValW(w) == w[1] + 256 * w[2] + 65536 * w[3] + 16777216 * w[4]

\* w + k and w - k mod 2^32, k a small immediate, carried lane by lane
AddW(w, k) ==
  LET s1 == w[1] + k
      s2 == w[2] + (s1 \div 256)
      s3 == w[3] + (s2 \div 256)
      s4 == w[4] + (s3 \div 256)
  IN  <<s1 % 256, s2 % 256, s3 % 256, s4 % 256>>
SubW(w, k) ==
  LET s1 == w[1] - k
      s2 == w[2] + (s1 \div 256)
      s3 == w[3] + (s2 \div 256)
      s4 == w[4] + (s3 \div 256)
  IN  <<s1 % 256, s2 % 256, s3 % 256, s4 % 256>>

\* logical shift right and rotate right by n lanes (8n bits)
LaneLsr(w, n, i) == IF i + n <= 4 THEN w[i + n] ELSE 0
LsrW(w, n) == <<LaneLsr(w, n, 1), LaneLsr(w, n, 2), LaneLsr(w, n, 3), LaneLsr(w, n, 4)>>
LaneRor(w, n, i) == w[((i - 1 + n) % 4) + 1]
RorW(w, n) == <<LaneRor(w, n, 1), LaneRor(w, n, 2), LaneRor(w, n, 3), LaneRor(w, n, 4)>>

ZeroW == <<0, 0, 0, 0>>

Pow2(n) == IF n = 0 THEN 1 ELSE IF n = 1 THEN 2 ELSE IF n = 2 THEN 4 ELSE 8

----------------------------------------------------------------------------
(* The caller's inputs and the state at entry *)

PlainByte(s, i) == (s * (17 * i + 91)) % 256
KeyByte(s, i) == (s * (13 * i + 5)) % 256
JunkByte(s, i) == (s * (7 * i + 165)) % 256
JunkFlag(s) == s % 2 = 1

\* data memory at entry; with lpm (scenario 2) the round keys are in program
\* memory and the data bytes at the same addresses are something else
InitMem(s, inFlash) ==
  [a \in Addr |->
     IF a \in BlockAddrs THEN PlainByte(s, a - BlockBase)
     ELSE IF a \in SboxAddrs THEN SBOX[a - SboxBase + 1]
     ELSE IF a \in KeyAddrs
       THEN (IF inFlash THEN 255 - KeyByte(s, a - KeyBase) ELSE KeyByte(s, a - KeyBase))
     ELSE 0]

\* program memory as lpm sees it
FlashByte(s, a) == IF a \in KeyAddrs THEN KeyByte(s, a - KeyBase) ELSE 0

\* a machine: registers, zero flag, memory, stack, key-read log, flash content
Machine(r, z, m, st, kr, s) ==
  [regs |-> r, zflag |-> z, mem |-> m, stack |-> st, keyReads |-> kr, iseed |-> s]

\* the log after a load of n bytes at address a
Logged(kr, a, n) ==
  IF a >= KeyBase THEN kr \o [i \in 1..n |-> a - KeyBase + i - 1] ELSE kr

Lo8(x) == x % 256
Hi8(x) == (x \div 256) % 256

----------------------------------------------------------------------------
(* AVR: instruction semantics *)

AVR_X == 26
AVR_Y == 28
AVR_Z == 30

\* the 16-bit pointer held in registers p+1:p, and the file with it set to v
AVR_Ptr(r, p) == r[p] + 256 * r[p + 1]
AVR_SetPtr(r, p, v) == [r EXCEPT ![p] = Lo8(v), ![p + 1] = Hi8(v)]

AVR_Step(m, ins) ==
  LET op == ins[1]
      r  == m.regs
  IN  CASE op = "push" ->
             [m EXCEPT !.stack = Append(@, r[ins[2]])]
        [] op = "pop" ->
             [m EXCEPT !.regs = [r EXCEPT ![ins[2]] = m.stack[Len(m.stack)]],
                       !.stack = SubSeq(@, 1, Len(@) - 1)]
        [] op = "ldi" ->
             [m EXCEPT !.regs = [r EXCEPT ![ins[2]] = ins[3]]]
        [] op = "mov" ->
             [m EXCEPT !.regs = [r EXCEPT ![ins[2]] = r[ins[3]]]]
        [] op = "movw" ->
             [m EXCEPT !.regs = [r EXCEPT ![ins[2]] = r[ins[3]],
                                          ![ins[2] + 1] = r[ins[3] + 1]]]
        [] op = "eor" ->
             LET v == Xor8(r[ins[2]], r[ins[3]])
             IN  [m EXCEPT !.regs = [r EXCEPT ![ins[2]] = v], !.zflag = (v = 0)]
        [] op = "dec" ->
             LET v == (r[ins[2]] - 1) % 256
             IN  [m EXCEPT !.regs = [r EXCEPT ![ins[2]] = v], !.zflag = (v = 0)]
        [] op = "ld" ->          \* ld rd, p   (p = x, y or z)
             LET a == AVR_Ptr(r, ins[3])
             IN  [m EXCEPT !.regs = [r EXCEPT ![ins[2]] = m.mem[a]],
                           !.keyReads = Logged(@, a, 1)]
        [] op = "ld+" ->         \* ld rd, p+
             LET a == AVR_Ptr(r, ins[3])
             IN  [m EXCEPT !.regs = AVR_SetPtr([r EXCEPT ![ins[2]] = m.mem[a]],
                                               ins[3], (a + 1) % 65536),
                           !.keyReads = Logged(@, a, 1)]
        [] op = "lpm+" ->        \* lpm rd, z+  (program memory)
             LET a == AVR_Ptr(r, ins[3])
             IN  [m EXCEPT !.regs = AVR_SetPtr([r EXCEPT ![ins[2]] = FlashByte(m.iseed, a)],
                                               ins[3], (a + 1) % 65536),
                           !.keyReads = Logged(@, a, 1)]
        [] op = "st" ->          \* st p, rs
             [m EXCEPT !.mem = [@ EXCEPT ![AVR_Ptr(r, ins[2])] = r[ins[3]]]]
        [] op = "st-" ->         \* st -p, rs
             LET a == (AVR_Ptr(r, ins[2]) - 1) % 65536
             IN  [m EXCEPT !.mem = [@ EXCEPT ![a] = r[ins[3]]],
                           !.regs = AVR_SetPtr(r, ins[2], a)]

(* AVR: the body, section by section *)

AVR_PrologueCode ==
  << <<"push", 6>>,  <<"push", 7>>,  <<"push", 8>>,  <<"push", 9>>,
     <<"push", 10>>, <<"push", 11>>, <<"push", 12>>, <<"push", 13>>,
     <<"push", 14>>, <<"push", 15>>, <<"push", 16>>, <<"push", 17>>,
     <<"push", 28>>, <<"push", 29>> >>

\* a load that fills r16 twice and r17 never
AVR_LoadCode_SkipsR17 ==
  << <<"ld+", 21, AVR_X>>, <<"ld+", 22, AVR_X>>, <<"ld+", 23, AVR_X>>, <<"ld+", 20, AVR_X>>,
     <<"ld+", 8,  AVR_X>>, <<"ld+", 9,  AVR_X>>, <<"ld+", 10, AVR_X>>, <<"ld+", 11, AVR_X>>,
     <<"ld+", 15, AVR_X>>, <<"ld+", 12, AVR_X>>, <<"ld+", 13, AVR_X>>, <<"ld+", 14, AVR_X>>,
     <<"ld+", 18, AVR_X>>, <<"ld+", 19, AVR_X>>, <<"ld+", 16, AVR_X>>, <<"ld",  16, AVR_X>>,
     <<"ldi", 24, NumRounds>>,
     <<"ldi", 25, RoundConst>>,
     <<"ldi", 29, Hi8(SboxBase)>> >>

AVR_LoadCode ==
  << <<"ld+", 21, AVR_X>>, <<"ld+", 22, AVR_X>>, <<"ld+", 23, AVR_X>>, <<"ld+", 20, AVR_X>>,
     <<"ld+", 8,  AVR_X>>, <<"ld+", 9,  AVR_X>>, <<"ld+", 10, AVR_X>>, <<"ld+", 11, AVR_X>>,
     <<"ld+", 15, AVR_X>>, <<"ld+", 12, AVR_X>>, <<"ld+", 13, AVR_X>>, <<"ld+", 14, AVR_X>>,
     <<"ld+", 18, AVR_X>>, <<"ld+", 19, AVR_X>>, <<"ld+", 16, AVR_X>>, <<"ld",  17, AVR_X>>,
     <<"ldi", 24, NumRounds>>,
     <<"ldi", 25, RoundConst>>,
     <<"ldi", 29, Hi8(SboxBase)>> >>

\* a SubCells that looks r8 and r9 up where they are, not in their copies r6, r7
AVR_SubCellsCode_NoSave ==
  << <<"movw", 6, 8>>,
     <<"mov", 28, 21>>, <<"ld", 8,  AVR_Y>>,
     <<"mov", 28, 19>>, <<"ld", 21, AVR_Y>>,
     <<"mov", 28, 14>>, <<"ld", 19, AVR_Y>>,
     <<"mov", 28, 10>>, <<"ld", 14, AVR_Y>>,
     <<"mov", 28, 23>>, <<"ld", 10, AVR_Y>>,
     <<"mov", 28, 17>>, <<"ld", 23, AVR_Y>>,
     <<"mov", 28, 12>>, <<"ld", 17, AVR_Y>>,
     <<"mov", 28, 8>>,  <<"ld", 12, AVR_Y>>,
     <<"mov", 28, 22>>, <<"ld", 9,  AVR_Y>>,
     <<"mov", 28, 16>>, <<"ld", 22, AVR_Y>>,
     <<"mov", 28, 15>>, <<"ld", 16, AVR_Y>>,
     <<"mov", 28, 11>>, <<"ld", 15, AVR_Y>>,
     <<"mov", 28, 20>>, <<"ld", 11, AVR_Y>>,
     <<"mov", 28, 18>>, <<"ld", 20, AVR_Y>>,
     <<"mov", 28, 13>>, <<"ld", 18, AVR_Y>>,
     <<"mov", 28, 9>>,  <<"ld", 13, AVR_Y>> >>

AVR_SubCellsCode ==
  << <<"movw", 6, 8>>,
     <<"mov", 28, 21>>, <<"ld", 8,  AVR_Y>>,
     <<"mov", 28, 19>>, <<"ld", 21, AVR_Y>>,
     <<"mov", 28, 14>>, <<"ld", 19, AVR_Y>>,
     <<"mov", 28, 10>>, <<"ld", 14, AVR_Y>>,
     <<"mov", 28, 23>>, <<"ld", 10, AVR_Y>>,
     <<"mov", 28, 17>>, <<"ld", 23, AVR_Y>>,
     <<"mov", 28, 12>>, <<"ld", 17, AVR_Y>>,
     <<"mov", 28, 6>>,  <<"ld", 12, AVR_Y>>,
     <<"mov", 28, 22>>, <<"ld", 9,  AVR_Y>>,
     <<"mov", 28, 16>>, <<"ld", 22, AVR_Y>>,
     <<"mov", 28, 15>>, <<"ld", 16, AVR_Y>>,
     <<"mov", 28, 11>>, <<"ld", 15, AVR_Y>>,
     <<"mov", 28, 20>>, <<"ld", 11, AVR_Y>>,
     <<"mov", 28, 18>>, <<"ld", 20, AVR_Y>>,
     <<"mov", 28, 13>>, <<"ld", 18, AVR_Y>>,
     <<"mov", 28, 7>>,  <<"ld", 13, AVR_Y>> >>

\* the #else branch: round keys in data memory
\* an AddRoundTweakey that puts the round constant into s9, not s8
AVR_AddKeyCode_ConstInS9 ==
  << <<"ld+", 6, AVR_Z>>, <<"eor", 8,  6>>,
     <<"ld+", 6, AVR_Z>>, <<"eor", 9,  6>>,
     <<"ld+", 6, AVR_Z>>, <<"eor", 10, 6>>,
     <<"ld+", 6, AVR_Z>>, <<"eor", 11, 6>>,
     <<"ld+", 6, AVR_Z>>, <<"eor", 12, 6>>,
     <<"ld+", 6, AVR_Z>>, <<"eor", 13, 6>>,
     <<"ld+", 6, AVR_Z>>, <<"eor", 14, 6>>,
     <<"ld+", 6, AVR_Z>>, <<"eor", 15, 6>>,
     <<"eor", 17, 25>> >>

AVR_AddKeyCode ==
  << <<"ld+", 6, AVR_Z>>, <<"eor", 8,  6>>,
     <<"ld+", 6, AVR_Z>>, <<"eor", 9,  6>>,
     <<"ld+", 6, AVR_Z>>, <<"eor", 10, 6>>,
     <<"ld+", 6, AVR_Z>>, <<"eor", 11, 6>>,
     <<"ld+", 6, AVR_Z>>, <<"eor", 12, 6>>,
     <<"ld+", 6, AVR_Z>>, <<"eor", 13, 6>>,
     <<"ld+", 6, AVR_Z>>, <<"eor", 14, 6>>,
     <<"ld+", 6, AVR_Z>>, <<"eor", 15, 6>>,
     <<"eor", 16, 25>> >>

\* the SCENARIO_2 branch: round keys in program memory
AVR_AddKeyFlashCode ==
  << <<"lpm+", 6, AVR_Z>>, <<"eor", 8,  6>>,
     <<"lpm+", 6, AVR_Z>>, <<"eor", 9,  6>>,
     <<"lpm+", 6, AVR_Z>>, <<"eor", 10, 6>>,
     <<"lpm+", 6, AVR_Z>>, <<"eor", 11, 6>>,
     <<"lpm+", 6, AVR_Z>>, <<"eor", 12, 6>>,
     <<"lpm+", 6, AVR_Z>>, <<"eor", 13, 6>>,
     <<"lpm+", 6, AVR_Z>>, <<"eor", 14, 6>>,
     <<"lpm+", 6, AVR_Z>>, <<"eor", 15, 6>>,
     <<"eor", 16, 25>> >>

\* a MixColumns whose first column takes a cell of the second
AVR_MixColumnsCode_CrossColumn ==
  << <<"eor", 15, 18>>, <<"eor", 18, 8>>,  <<"eor", 21, 19>>,
     <<"eor", 12, 19>>, <<"eor", 19, 9>>,  <<"eor", 22, 19>>,
     <<"eor", 13, 16>>, <<"eor", 16, 10>>, <<"eor", 23, 16>>,
     <<"eor", 14, 17>>, <<"eor", 17, 11>>, <<"eor", 20, 17>> >>

AVR_MixColumnsCode ==
  << <<"eor", 15, 18>>, <<"eor", 18, 8>>,  <<"eor", 21, 18>>,
     <<"eor", 12, 19>>, <<"eor", 19, 9>>,  <<"eor", 22, 19>>,
     <<"eor", 13, 16>>, <<"eor", 16, 10>>, <<"eor", 23, 16>>,
     <<"eor", 14, 17>>, <<"eor", 17, 11>>, <<"eor", 20, 17>> >>

AVR_DecCode == << <<"dec", 24>> >>

\* a store with s0 and s1 exchanged
AVR_StoreCode_Swapped ==
  << <<"st",  AVR_X, 17>>, <<"st-", AVR_X, 16>>, <<"st-", AVR_X, 19>>, <<"st-", AVR_X, 18>>,
     <<"st-", AVR_X, 14>>, <<"st-", AVR_X, 13>>, <<"st-", AVR_X, 12>>, <<"st-", AVR_X, 15>>,
     <<"st-", AVR_X, 11>>, <<"st-", AVR_X, 10>>, <<"st-", AVR_X, 9>>,  <<"st-", AVR_X, 8>>,
     <<"st-", AVR_X, 20>>, <<"st-", AVR_X, 23>>, <<"st-", AVR_X, 21>>, <<"st-", AVR_X, 22>> >>

AVR_StoreCode ==
  << <<"st",  AVR_X, 17>>, <<"st-", AVR_X, 16>>, <<"st-", AVR_X, 19>>, <<"st-", AVR_X, 18>>,
     <<"st-", AVR_X, 14>>, <<"st-", AVR_X, 13>>, <<"st-", AVR_X, 12>>, <<"st-", AVR_X, 15>>,
     <<"st-", AVR_X, 11>>, <<"st-", AVR_X, 10>>, <<"st-", AVR_X, 9>>,  <<"st-", AVR_X, 8>>,
     <<"st-", AVR_X, 20>>, <<"st-", AVR_X, 23>>, <<"st-", AVR_X, 22>>, <<"st-", AVR_X, 21>> >>

\* an epilogue that pops r28 before r29
AVR_EpilogueCode_Swapped ==
  << <<"pop", 28>>, <<"pop", 29>>, <<"pop", 17>>, <<"pop", 16>>,
     <<"pop", 15>>, <<"pop", 14>>, <<"pop", 13>>, <<"pop", 12>>,
     <<"pop", 11>>, <<"pop", 10>>, <<"pop", 9>>,  <<"pop", 8>>,
     <<"pop", 7>>,  <<"pop", 6>> >>

AVR_EpilogueCode ==
  << <<"pop", 29>>, <<"pop", 28>>, <<"pop", 17>>, <<"pop", 16>>,
     <<"pop", 15>>, <<"pop", 14>>, <<"pop", 13>>, <<"pop", 12>>,
     <<"pop", 11>>, <<"pop", 10>>, <<"pop", 9>>,  <<"pop", 8>>,
     <<"pop", 7>>,  <<"pop", 6>> >>

\* registers at entry: garbage, except X = block and Z = roundKeys
\* (the asm constraints "x" (block), "z" (roundKeys))
AVR_EntryRegs(js) ==
  [i \in 0..31 |->
     CASE i = 26 -> Lo8(BlockBase) [] i = 27 -> Hi8(BlockBase)
       [] i = 30 -> Lo8(KeyBase)   [] i = 31 -> Hi8(KeyBase)
       [] OTHER -> JunkByte(js, i)]

----------------------------------------------------------------------------
(* MSP430: instruction semantics (source operand first, as in the source) *)

MSP_Word(mm, a) == mm[a] + 256 * mm[a + 1]

MSP_Step(m, ins) ==
  LET op == ins[1]
      r  == m.regs
  IN  CASE op = "push" ->
             [m EXCEPT !.stack = Append(@, r[ins[2]])]
        [] op = "pop" ->
             [m EXCEPT !.regs = [r EXCEPT ![ins[2]] = m.stack[Len(m.stack)]],
                       !.stack = SubSeq(@, 1, Len(@) - 1)]
        [] op = "mov#" ->        \* mov #k, rd
             [m EXCEPT !.regs = [r EXCEPT ![ins[3]] = ins[2]]]
        [] op = "mov@" ->        \* mov off(rb), rd
             LET a == (r[ins[3]] + ins[2]) % 65536
             IN  [m EXCEPT !.regs = [r EXCEPT ![ins[4]] = MSP_Word(m.mem, a)],
                           !.keyReads = Logged(@, a, 2)]
        [] op = "mov>" ->        \* mov rs, off(rb)
             LET a == (r[ins[4]] + ins[3]) % 65536
             IN  [m EXCEPT !.mem = [@ EXCEPT ![a] = Lo8(r[ins[2]]),
                                             ![a + 1] = Hi8(r[ins[2]])]]
        [] op = "mov.b" ->       \* mov.b rs, rd
             [m EXCEPT !.regs = [r EXCEPT ![ins[3]] = Lo8(r[ins[2]])]]
        [] op = "mov.b@" ->      \* mov.b base(rs), rd
             LET a == (ins[2] + r[ins[3]]) % 65536
             IN  [m EXCEPT !.regs = [r EXCEPT ![ins[4]] = m.mem[a]],
                           !.keyReads = Logged(@, a, 1)]
        [] op = "mov.b>" ->      \* mov.b rs, off(rb)
             LET a == (r[ins[4]] + ins[3]) % 65536
             IN  [m EXCEPT !.mem = [@ EXCEPT ![a] = Lo8(r[ins[2]])]]
        [] op = "mov.b@>" ->     \* mov.b base(rs), off(rb)
             LET a == (ins[2] + r[ins[3]]) % 65536
                 d == (r[ins[5]] + ins[4]) % 65536
             IN  [m EXCEPT !.mem = [@ EXCEPT ![d] = m.mem[a]],
                           !.keyReads = Logged(@, a, 1)]
        [] op = "xor.b@+" ->     \* xor.b @rp+, rd
             LET a == r[ins[2]]
                 v == Xor8(m.mem[a], Lo8(r[ins[3]]))
             IN  [m EXCEPT !.regs = [r EXCEPT ![ins[3]] = v,
                                              ![ins[2]] = (a + 1) % 65536],
                           !.zflag = (v = 0),
                           !.keyReads = Logged(@, a, 1)]
        [] op = "xor.b#" ->      \* xor.b #k, rd
             LET v == Xor8(Lo8(ins[2]), Lo8(r[ins[3]]))
             IN  [m EXCEPT !.regs = [r EXCEPT ![ins[3]] = v], !.zflag = (v = 0)]
        [] op = "xor" ->         \* xor rs, rd
             LET v == Xor16(r[ins[2]], r[ins[3]])
             IN  [m EXCEPT !.regs = [r EXCEPT ![ins[3]] = v], !.zflag = (v = 0)]
        [] op = "swpb" ->
             [m EXCEPT !.regs = [r EXCEPT ![ins[2]] = 256 * Lo8(@) + Hi8(@)]]
        [] op = "dec" ->
             LET v == (r[ins[2]] - 1) % 65536
             IN  [m EXCEPT !.regs = [r EXCEPT ![ins[2]] = v], !.zflag = (v = 0)]

(* MSP430: the body, section by section *)

MSP_PrologueCode ==
  << <<"push", 4>>, <<"push", 5>>, <<"push", 6>>, <<"push", 7>>,
     <<"push", 8>>, <<"push", 9>>, <<"push", 10>>, <<"push", 11>> >>

MSP_LoadCode ==
  << <<"mov#", NumRounds, 13>>,
     <<"mov@", 0, 15, 4>>,  <<"mov@", 2, 15, 5>>,   <<"mov@", 4, 15, 6>>,   <<"mov@", 6, 15, 7>>,
     <<"mov@", 8, 15, 8>>,  <<"mov@", 10, 15, 9>>,  <<"mov@", 12, 15, 10>>, <<"mov@", 14, 15, 11>> >>

\* SubCells, AddConstants, AddRoundTweakey and ShiftRows, one cell at a time
MSP_SubAddShiftCode ==
  << <<"mov.b", 4, 12>>, <<"mov.b@", SboxBase, 12, 12>>, <<"xor.b@+", 14, 12>>, <<"mov.b>", 12, 0, 15>>,
     <<"swpb", 4>>, <<"mov.b", 4, 12>>, <<"mov.b@", SboxBase, 12, 12>>, <<"xor.b@+", 14, 12>>, <<"mov.b>", 12, 1, 15>>,
     <<"mov.b", 5, 12>>, <<"mov.b@", SboxBase, 12, 12>>, <<"xor.b@+", 14, 12>>, <<"mov.b>", 12, 2, 15>>,
     <<"swpb", 5>>, <<"mov.b", 5, 12>>, <<"mov.b@", SboxBase, 12, 12>>, <<"xor.b@+", 14, 12>>, <<"mov.b>", 12, 3, 15>>,
     <<"mov.b", 6, 12>>, <<"mov.b@", SboxBase, 12, 12>>, <<"xor.b@+", 14, 12>>, <<"mov.b>", 12, 5, 15>>,
     <<"swpb", 6>>, <<"mov.b", 6, 12>>, <<"mov.b@", SboxBase, 12, 12>>, <<"xor.b@+", 14, 12>>, <<"mov.b>", 12, 6, 15>>,
     <<"mov.b", 7, 12>>, <<"mov.b@", SboxBase, 12, 12>>, <<"xor.b@+", 14, 12>>, <<"mov.b>", 12, 7, 15>>,
     <<"swpb", 7>>, <<"mov.b", 7, 12>>, <<"mov.b@", SboxBase, 12, 12>>, <<"xor.b@+", 14, 12>>, <<"mov.b>", 12, 4, 15>>,
     <<"mov.b", 8, 12>>, <<"mov.b@", SboxBase, 12, 12>>, <<"xor.b#", RoundConst, 12>>, <<"mov.b>", 12, 10, 15>>,
     <<"swpb", 8>>, <<"mov.b", 8, 12>>, <<"mov.b@>", SboxBase, 12, 11, 15>>,
     <<"mov.b", 9, 12>>, <<"mov.b@>", SboxBase, 12, 8, 15>>,
     <<"swpb", 9>>, <<"mov.b", 9, 12>>, <<"mov.b@>", SboxBase, 12, 9, 15>>,
     <<"mov.b", 10, 12>>, <<"mov.b@>", SboxBase, 12, 15, 15>>,
     <<"swpb", 10>>, <<"mov.b", 10, 12>>, <<"mov.b@>", SboxBase, 12, 12, 15>>,
     <<"mov.b", 11, 12>>, <<"mov.b@>", SboxBase, 12, 13, 15>>,
     <<"swpb", 11>>, <<"mov.b", 11, 12>>, <<"mov.b@>", SboxBase, 12, 14, 15>> >>

\* a MixColumns without the last XOR of columns 2 and 3
MSP_MixColumnsCode_Short ==
  << <<"mov@", 0, 15, 6>>,  <<"mov@", 2, 15, 7>>,   <<"mov@", 4, 15, 8>>,  <<"mov@", 6, 15, 9>>,
     <<"mov@", 8, 15, 10>>, <<"mov@", 10, 15, 11>>, <<"mov@", 12, 15, 4>>, <<"mov@", 14, 15, 5>>,
     <<"xor", 10, 8>>, <<"xor", 6, 10>>, <<"xor", 10, 4>>,
     <<"xor", 11, 9>>, <<"xor", 7, 11>> >>

MSP_MixColumnsCode ==
  << <<"mov@", 0, 15, 6>>,  <<"mov@", 2, 15, 7>>,   <<"mov@", 4, 15, 8>>,  <<"mov@", 6, 15, 9>>,
     <<"mov@", 8, 15, 10>>, <<"mov@", 10, 15, 11>>, <<"mov@", 12, 15, 4>>, <<"mov@", 14, 15, 5>>,
     <<"xor", 10, 8>>, <<"xor", 6, 10>>, <<"xor", 10, 4>>,
     <<"xor", 11, 9>>, <<"xor", 7, 11>>, <<"xor", 11, 5>> >>

MSP_DecCode == << <<"dec", 13>> >>

\* a store whose last word lands just past the block
MSP_StoreCode_PastBlock ==
  << <<"mov>", 4, 0, 15>>, <<"mov>", 5, 2, 15>>,  <<"mov>", 6, 4, 15>>,   <<"mov>", 7, 6, 15>>,
     <<"mov>", 8, 8, 15>>, <<"mov>", 9, 10, 15>>, <<"mov>", 10, 12, 15>>, <<"mov>", 11, 16, 15>> >>

MSP_StoreCode ==
  << <<"mov>", 4, 0, 15>>, <<"mov>", 5, 2, 15>>,  <<"mov>", 6, 4, 15>>,   <<"mov>", 7, 6, 15>>,
     <<"mov>", 8, 8, 15>>, <<"mov>", 9, 10, 15>>, <<"mov>", 10, 12, 15>>, <<"mov>", 11, 14, 15>> >>

MSP_EpilogueCode ==
  << <<"pop", 11>>, <<"pop", 10>>, <<"pop", 9>>, <<"pop", 8>>,
     <<"pop", 7>>,  <<"pop", 6>>,  <<"pop", 5>>, <<"pop", 4>> >>

\* registers at entry: garbage, except r15 = block and r14 = roundKeys
MSP_EntryRegs(js) ==
  [i \in 4..15 |->
     CASE i = 15 -> BlockBase
       [] i = 14 -> KeyBase
       [] OTHER -> JunkByte(js, i) + 256 * JunkByte(js, i + 16)]

----------------------------------------------------------------------------
(* ARM: instruction semantics (destination first, as in the source) *)

ARM_Word(mm, a) == <<mm[a], mm[a + 1], mm[a + 2], mm[a + 3]>>

\* registers lo..hi loaded from / stored to consecutive words at address a
ARM_LoadRegs(r, mm, lo, hi, a) ==
  [i \in DOMAIN r |-> IF i >= lo /\ i <= hi THEN ARM_Word(mm, a + 4 * (i - lo)) ELSE r[i]]
ARM_StoreRegs(r, mm, lo, hi, a) ==
  [x \in DOMAIN mm |->
     IF x >= a /\ x < a + 4 * (hi - lo + 1)
       THEN r[lo + ((x - a) \div 4)][((x - a) % 4) + 1]
       ELSE mm[x]]

ARM_Step(m, ins) ==
  LET op == ins[1]
      r  == m.regs
  IN  CASE op = "stmdb_sp" ->    \* stmdb sp!, {lo-hi}: the highest register first
             [m EXCEPT !.stack = @ \o [i \in 1..(ins[3] - ins[2] + 1) |-> r[ins[3] - i + 1]]]
        [] op = "ldmia_sp" ->    \* ldmia sp!, {lo-hi}: the lowest register first
             LET n == ins[3] - ins[2] + 1
                 s == m.stack
             IN  [m EXCEPT !.regs = [i \in DOMAIN r |->
                                       IF i >= ins[2] /\ i <= ins[3]
                                         THEN s[Len(s) - (i - ins[2])] ELSE r[i]],
                           !.stack = SubSeq(s, 1, Len(s) - n)]
        [] op = "mov#" ->        \* mov rd, #k
             [m EXCEPT !.regs = [r EXCEPT ![ins[2]] = ImmW(ins[3])]]
        [] op = "ldr=" ->        \* ldr rd, =symbol
             [m EXCEPT !.regs = [r EXCEPT ![ins[2]] = ImmW(ins[3])]]
        [] op = "mov" ->         \* mov rd, rm
             [m EXCEPT !.regs = [r EXCEPT ![ins[2]] = r[ins[3]]]]
        [] op = "mov_lsr" ->     \* mov rd, rm, lsr #sh
             [m EXCEPT !.regs = [r EXCEPT ![ins[2]] = LsrW(r[ins[3]], ins[4] \div 8)]]
        [] op = "and#" ->        \* and rd, rn, #k
             [m EXCEPT !.regs = [r EXCEPT ![ins[2]] = AndW(r[ins[3]], ImmW(ins[4]))]]
        [] op = "and_lsr" ->     \* and rd, rn, rm, lsr #sh
             [m EXCEPT !.regs = [r EXCEPT ![ins[2]] =
                                   AndW(r[ins[3]], LsrW(r[ins[4]], ins[5] \div 8))]]
        [] op = "bfi" ->         \* bfi rd, rn, #lsb, #8
             [m EXCEPT !.regs = [r EXCEPT ![ins[2]] =
                                   [@ EXCEPT ![(ins[4] \div 8) + 1] = r[ins[3]][1]]]]
        [] op = "ldrb" ->        \* ldrb rd, [rn, rm]
             LET a == ValW(AddW(r[ins[3]], ValW(r[ins[4]])))
             IN  [m EXCEPT !.regs = [r EXCEPT ![ins[2]] = <<m.mem[a], 0, 0, 0>>],
                           !.keyReads = Logged(@, a, 1)]
        [] op = "ldrd" ->        \* ldrd rt, rt2, [rn, #off]
             LET a == ValW(AddW(r[ins[4]], ins[5]))
             IN  [m EXCEPT !.regs = [r EXCEPT ![ins[2]] = ARM_Word(m.mem, a),
                                              ![ins[3]] = ARM_Word(m.mem, a + 4)],
                           !.keyReads = Logged(@, a, 8)]
        [] op = "ldmia" ->       \* ldmia rb, {lo-hi}
             LET a == ValW(r[ins[2]])
             IN  [m EXCEPT !.regs = ARM_LoadRegs(r, m.mem, ins[3], ins[4], a),
                           !.keyReads = Logged(@, a, 4 * (ins[4] - ins[3] + 1))]
        [] op = "stmia" ->       \* stmia rb, {lo-hi}
             [m EXCEPT !.mem = ARM_StoreRegs(r, @, ins[3], ins[4], ValW(r[ins[2]]))]
        [] op = "adds" ->        \* adds rd, rn, #k
             LET v == AddW(r[ins[3]], ins[4])
             IN  [m EXCEPT !.regs = [r EXCEPT ![ins[2]] = v], !.zflag = (v = ZeroW)]
        [] op = "subs" ->        \* subs rd, rn, #k
             LET v == SubW(r[ins[3]], ins[4])
             IN  [m EXCEPT !.regs = [r EXCEPT ![ins[2]] = v], !.zflag = (v = ZeroW)]
        [] op = "eors" ->        \* eors rd, rn, rm
             LET v == XorW(r[ins[3]], r[ins[4]])
             IN  [m EXCEPT !.regs = [r EXCEPT ![ins[2]] = v], !.zflag = (v = ZeroW)]
        [] op = "eors#" ->       \* eors rd, rn, #k
             LET v == XorW(r[ins[3]], ImmW(ins[4]))
             IN  [m EXCEPT !.regs = [r EXCEPT ![ins[2]] = v], !.zflag = (v = ZeroW)]
        [] op = "rors" ->        \* rors rd, rm, #sh
             LET v == RorW(r[ins[3]], ins[4] \div 8)
             IN  [m EXCEPT !.regs = [r EXCEPT ![ins[2]] = v], !.zflag = (v = ZeroW)]

(* ARM: the body, section by section *)

ARM_PrologueCode == << <<"stmdb_sp", 2, 10>> >>

ARM_LoadCode ==
  << <<"mov#", 8, NumRounds>>,
     <<"ldr=", 9, SboxBase>>,
     <<"mov#", 10, 255>>,
     <<"ldmia", 0, 2, 5>> >>

ARM_SubCellsCode ==
  << <<"and#", 6, 2, 255>>,        <<"ldrb", 6, 9, 6>>, <<"bfi", 2, 6, 0, 8>>,
     <<"and_lsr", 6, 10, 2, 8>>,  <<"ldrb", 6, 9, 6>>, <<"bfi", 2, 6, 8, 8>>,
     <<"and_lsr", 6, 10, 2, 16>>, <<"ldrb", 6, 9, 6>>, <<"bfi", 2, 6, 16, 8>>,
     <<"mov_lsr", 6, 2, 24>>,     <<"ldrb", 6, 9, 6>>, <<"bfi", 2, 6, 24, 8>>,
     <<"and#", 6, 3, 255>>,        <<"ldrb", 6, 9, 6>>, <<"bfi", 3, 6, 0, 8>>,
     <<"and_lsr", 6, 10, 3, 8>>,  <<"ldrb", 6, 9, 6>>, <<"bfi", 3, 6, 8, 8>>,
     <<"and_lsr", 6, 10, 3, 16>>, <<"ldrb", 6, 9, 6>>, <<"bfi", 3, 6, 16, 8>>,
     <<"mov_lsr", 6, 3, 24>>,     <<"ldrb", 6, 9, 6>>, <<"bfi", 3, 6, 24, 8>>,
     <<"and#", 6, 4, 255>>,        <<"ldrb", 6, 9, 6>>, <<"bfi", 4, 6, 0, 8>>,
     <<"and_lsr", 6, 10, 4, 8>>,  <<"ldrb", 6, 9, 6>>, <<"bfi", 4, 6, 8, 8>>,
     <<"and_lsr", 6, 10, 4, 16>>, <<"ldrb", 6, 9, 6>>, <<"bfi", 4, 6, 16, 8>>,
     <<"mov_lsr", 6, 4, 24>>,     <<"ldrb", 6, 9, 6>>, <<"bfi", 4, 6, 24, 8>>,
     <<"and#", 6, 5, 255>>,        <<"ldrb", 6, 9, 6>>, <<"bfi", 5, 6, 0, 8>>,
     <<"and_lsr", 6, 10, 5, 8>>,  <<"ldrb", 6, 9, 6>>, <<"bfi", 5, 6, 8, 8>>,
     <<"and_lsr", 6, 10, 5, 16>>, <<"ldrb", 6, 9, 6>>, <<"bfi", 5, 6, 16, 8>>,
     <<"mov_lsr", 6, 5, 24>>,     <<"ldrb", 6, 9, 6>>, <<"bfi", 5, 6, 24, 8>> >>

\* an AddRoundTweakey that leaves the key cursor where it was
ARM_AddKeyCode_NoAdvance ==
  << <<"ldrd", 6, 7, 1, 0>>,
     <<"adds", 1, 1, 0>>,
     <<"eors", 2, 2, 6>>,
     <<"eors", 3, 3, 7>>,
     <<"eors#", 4, 4, RoundConst>> >>

ARM_AddKeyCode ==
  << <<"ldrd", 6, 7, 1, 0>>,
     <<"adds", 1, 1, ChunkLen>>,
     <<"eors", 2, 2, 6>>,
     <<"eors", 3, 3, 7>>,
     <<"eors#", 4, 4, RoundConst>> >>

\* a ShiftRows that turns the rows the other way
ARM_ShiftRowsCode_Left ==
  << <<"rors", 3, 3, 8>>,
     <<"rors", 4, 4, 16>>,
     <<"rors", 5, 5, 24>> >>

ARM_ShiftRowsCode ==
  << <<"rors", 3, 3, 24>>,
     <<"rors", 4, 4, 16>>,
     <<"rors", 5, 5, 8>> >>

\* a MixColumns whose last move takes r5 for the saved row 0
ARM_MixColumnsCode_LosesRow ==
  << <<"eors", 3, 3, 4>>,
     <<"eors", 4, 4, 2>>,
     <<"eors", 5, 5, 4>>,
     <<"mov", 6, 2>>,
     <<"mov", 2, 5>>,
     <<"mov", 5, 4>>,
     <<"mov", 4, 3>>,
     <<"mov", 3, 5>> >>

ARM_MixColumnsCode ==
  << <<"eors", 3, 3, 4>>,
     <<"eors", 4, 4, 2>>,
     <<"eors", 5, 5, 4>>,
     <<"mov", 6, 2>>,
     <<"mov", 2, 5>>,
     <<"mov", 5, 4>>,
     <<"mov", 4, 3>>,
     <<"mov", 3, 6>> >>

\* a loop end that also stores the state of the round into the block
ARM_SubsCode_StoresState == << <<"stmia", 0, 2, 5>>, <<"subs", 8, 8, 1>> >>

ARM_SubsCode == << <<"subs", 8, 8, 1>> >>

ARM_StoreCode == << <<"stmia", 0, 2, 5>> >>

ARM_EpilogueCode == << <<"ldmia_sp", 2, 10>> >>

\* registers at entry: garbage, except r0 = block and r1 = roundKeys
ARM_EntryRegs(js) ==
  [i \in 0..10 |->
     CASE i = 0 -> ImmW(BlockBase)
       [] i = 1 -> ImmW(KeyBase)
       [] OTHER -> <<JunkByte(js, i), JunkByte(js, i + 16),
                     JunkByte(js, i + 32), JunkByte(js, i + 48)>>]

----------------------------------------------------------------------------
(* Running a section of a body *)

Step(a, m, ins) ==
  CASE a = "AVR" -> AVR_Step(m, ins)
    [] a = "MSP" -> MSP_Step(m, ins)
    [] a = "ARM" -> ARM_Step(m, ins)

\* instructions lo..hi of code, in order.  The range is split in halves and
\* the first half is evaluated (the test on its flag) before the second
\* starts, which keeps TLC's evaluation shallow.
RECURSIVE RunRange(_, _, _, _, _)
RunRange(a, m, code, lo, hi) ==
  IF lo > hi THEN m
  ELSE IF lo = hi THEN Step(a, m, code[lo])
  ELSE LET mid == (lo + hi) \div 2
           first == RunRange(a, m, code, lo, mid)
       IN  IF first.zflag \in BOOLEAN
             THEN RunRange(a, first, code, mid + 1, hi)
             ELSE first

Run(a, m, code) == RunRange(a, m, code, 1, Len(code))

Archs == {"AVR", "MSP", "ARM"}

EntryRegs(a, js) ==
  CASE a = "AVR" -> AVR_EntryRegs(js)
    [] a = "MSP" -> MSP_EntryRegs(js)
    [] a = "ARM" -> ARM_EntryRegs(js)

\* the machine when Encrypt is entered
EntryMachine(a, s2, s, js) ==
  Machine(EntryRegs(a, js), JunkFlag(js), InitMem(s, s2), <<>>, <<>>, s)

\* the machine the variables hold
Cur == Machine(regs, zflag, mem, stack, keyReads, iseed)

\* a branch taken on the opposite condition
LoopTarget_Inverted(z, head, exit) == IF z THEN head ELSE exit

\* the conditional branch that closes the loop (brne / jne / bne): taken
\* while the zero flag is clear
LoopTarget(z, head, exit) == IF z THEN exit ELSE head

\* the variables after running code from the current state
Exec(a, code) ==
  LET n == Run(a, Cur, code)
  IN  /\ regs' = n.regs
      /\ zflag' = n.zflag
      /\ mem' = n.mem
      /\ stack' = n.stack
      /\ keyReads' = n.keyReads

----------------------------------------------------------------------------
(* The state machine *)

Init ==
  /\ arch \in Archs
  /\ scenario2 \in (IF arch = "AVR" THEN BOOLEAN ELSE {FALSE})
  /\ iseed \in 0..MaxInputSeed
  /\ jseed \in 0..MaxJunkSeed
  /\ pc = "prologue"
  /\ regs = EntryRegs(arch, jseed)
  /\ zflag = JunkFlag(jseed)
  /\ mem = InitMem(iseed, scenario2)
  /\ twin = <<>>
  /\ stack = <<>>
  /\ keyReads = <<>>
  /\ rounds = 0

AVR_Prologue ==
  /\ arch = "AVR"
  /\ pc = "prologue"
  /\ Exec("AVR", AVR_PrologueCode)
  /\ pc' = "load"
  /\ UNCHANGED <<arch, scenario2, rounds, iseed, jseed, twin>>
AVR_Load ==
  /\ arch = "AVR"
  /\ pc = "load"
  /\ Exec("AVR", AVR_LoadCode)
  /\ pc' = "sub"
  /\ UNCHANGED <<arch, scenario2, rounds, iseed, jseed, twin>>
AVR_SubCells ==
  /\ arch = "AVR"
  /\ pc = "sub"
  /\ Exec("AVR", AVR_SubCellsCode)
  /\ pc' = "addkey"
  /\ UNCHANGED <<arch, scenario2, rounds, iseed, jseed, twin>>
AVR_AddRoundTweakey ==
  /\ arch = "AVR"
  /\ ~scenario2
  /\ pc = "addkey"
  /\ Exec("AVR", AVR_AddKeyCode)
  /\ pc' = "mix"
  /\ UNCHANGED <<arch, scenario2, rounds, iseed, jseed, twin>>
AVR_AddRoundTweakeyFlash ==
  /\ arch = "AVR"
  /\ scenario2
  /\ pc = "addkey"
  /\ Exec("AVR", AVR_AddKeyFlashCode)
  /\ pc' = "mix"
  /\ UNCHANGED <<arch, scenario2, rounds, iseed, jseed, twin>>
AVR_MixColumns ==
  /\ arch = "AVR"
  /\ pc = "mix"
  /\ Exec("AVR", AVR_MixColumnsCode)
  /\ pc' = "branch"
  /\ UNCHANGED <<arch, scenario2, rounds, iseed, jseed, twin>>
AVR_Branch ==
  /\ arch = "AVR"
  /\ pc = "branch"
  /\ Exec("AVR", AVR_DecCode)
  /\ pc' = LoopTarget(zflag', "sub", "store")
  /\ rounds' = rounds + 1
  /\ UNCHANGED <<arch, scenario2, iseed, jseed, twin>>
AVR_Store ==
  /\ arch = "AVR"
  /\ pc = "store"
  /\ Exec("AVR", AVR_StoreCode)
  /\ pc' = "epilogue"
  /\ UNCHANGED <<arch, scenario2, rounds, iseed, jseed, twin>>
AVR_Epilogue ==
  /\ arch = "AVR"
  /\ pc = "epilogue"
  /\ Exec("AVR", AVR_EpilogueCode)
  /\ pc' = "done"
  /\ UNCHANGED <<arch, scenario2, rounds, iseed, jseed, twin>>

MSP_Prologue ==
  /\ arch = "MSP"
  /\ pc = "prologue"
  /\ Exec("MSP", MSP_PrologueCode)
  /\ pc' = "load"
  /\ UNCHANGED <<arch, scenario2, rounds, iseed, jseed, twin>>
MSP_Load ==
  /\ arch = "MSP"
  /\ pc = "load"
  /\ Exec("MSP", MSP_LoadCode)
  /\ pc' = "sub"
  /\ UNCHANGED <<arch, scenario2, rounds, iseed, jseed, twin>>
MSP_SubAddShift ==
  /\ arch = "MSP"
  /\ pc = "sub"
  /\ Exec("MSP", MSP_SubAddShiftCode)
  /\ pc' = "mix"
  /\ UNCHANGED <<arch, scenario2, rounds, iseed, jseed, twin>>
MSP_MixColumns ==
  /\ arch = "MSP"
  /\ pc = "mix"
  /\ Exec("MSP", MSP_MixColumnsCode)
  /\ pc' = "branch"
  /\ UNCHANGED <<arch, scenario2, rounds, iseed, jseed, twin>>
MSP_Branch ==
  /\ arch = "MSP"
  /\ pc = "branch"
  /\ Exec("MSP", MSP_DecCode)
  /\ pc' = LoopTarget(zflag', "sub", "store")
  /\ rounds' = rounds + 1
  /\ UNCHANGED <<arch, scenario2, iseed, jseed, twin>>
MSP_Store ==
  /\ arch = "MSP"
  /\ pc = "store"
  /\ Exec("MSP", MSP_StoreCode)
  /\ pc' = "epilogue"
  /\ UNCHANGED <<arch, scenario2, rounds, iseed, jseed, twin>>
MSP_Epilogue ==
  /\ arch = "MSP"
  /\ pc = "epilogue"
  /\ Exec("MSP", MSP_EpilogueCode)
  /\ pc' = "done"
  /\ UNCHANGED <<arch, scenario2, rounds, iseed, jseed, twin>>

ARM_Prologue ==
  /\ arch = "ARM"
  /\ pc = "prologue"
  /\ Exec("ARM", ARM_PrologueCode)
  /\ pc' = "load"
  /\ UNCHANGED <<arch, scenario2, rounds, iseed, jseed, twin>>
ARM_Load ==
  /\ arch = "ARM"
  /\ pc = "load"
  /\ Exec("ARM", ARM_LoadCode)
  /\ pc' = "sub"
  /\ UNCHANGED <<arch, scenario2, rounds, iseed, jseed, twin>>
ARM_SubCells ==
  /\ arch = "ARM"
  /\ pc = "sub"
  /\ Exec("ARM", ARM_SubCellsCode)
  /\ pc' = "addkey"
  /\ UNCHANGED <<arch, scenario2, rounds, iseed, jseed, twin>>
ARM_AddRoundTweakey ==
  /\ arch = "ARM"
  /\ pc = "addkey"
  /\ Exec("ARM", ARM_AddKeyCode)
  /\ pc' = "shift"
  /\ UNCHANGED <<arch, scenario2, rounds, iseed, jseed, twin>>
ARM_ShiftRows ==
  /\ arch = "ARM"
  /\ pc = "shift"
  /\ Exec("ARM", ARM_ShiftRowsCode)
  /\ pc' = "mix"
  /\ UNCHANGED <<arch, scenario2, rounds, iseed, jseed, twin>>
ARM_MixColumns ==
  /\ arch = "ARM"
  /\ pc = "mix"
  /\ Exec("ARM", ARM_MixColumnsCode)
  /\ pc' = "branch"
  /\ UNCHANGED <<arch, scenario2, rounds, iseed, jseed, twin>>
ARM_Branch ==
  /\ arch = "ARM"
  /\ pc = "branch"
  /\ Exec("ARM", ARM_SubsCode)
  /\ pc' = LoopTarget(zflag', "sub", "store")
  /\ rounds' = rounds + 1
  /\ UNCHANGED <<arch, scenario2, iseed, jseed, twin>>
ARM_Store ==
  /\ arch = "ARM"
  /\ pc = "store"
  /\ Exec("ARM", ARM_StoreCode)
  /\ pc' = "epilogue"
  /\ UNCHANGED <<arch, scenario2, rounds, iseed, jseed, twin>>
ARM_Epilogue ==
  /\ arch = "ARM"
  /\ pc = "epilogue"
  /\ Exec("ARM", ARM_EpilogueCode)
  /\ pc' = "done"
  /\ UNCHANGED <<arch, scenario2, rounds, iseed, jseed, twin>>

Next ==
  \/ AVR_Prologue \/ AVR_Load \/ AVR_SubCells \/ AVR_AddRoundTweakey
  \/ AVR_AddRoundTweakeyFlash \/ AVR_MixColumns \/ AVR_Branch \/ AVR_Store
  \/ AVR_Epilogue
  \/ MSP_Prologue \/ MSP_Load \/ MSP_SubAddShift \/ MSP_MixColumns
  \/ MSP_Branch \/ MSP_Store \/ MSP_Epilogue
  \/ ARM_Prologue \/ ARM_Load \/ ARM_SubCells \/ ARM_AddRoundTweakey
  \/ ARM_ShiftRows \/ ARM_MixColumns \/ ARM_Branch \/ ARM_Store
  \/ ARM_Epilogue

Spec == Init /\ [][Next]_vars

Sections ==
  {"prologue", "load", "sub", "addkey", "shift", "mix", "branch", "store", "epilogue", "done"}

\* The processor keeps executing until the function returns.  Every action
\* of Next moves pc to another section and one of them is enabled in every
\* state but "done", so fairness of the step to another section is
\* fairness of Next.
Progress == pc # "done" /\ pc' \in Sections /\ pc' # pc

FairSpec == Spec /\ WF_pc(Progress)

----------------------------------------------------------------------------
(* The bodies as functions of the machine at entry *)

PrologueCode(a) ==
  CASE a = "AVR" -> AVR_PrologueCode [] a = "MSP" -> MSP_PrologueCode [] a = "ARM" -> ARM_PrologueCode
LoadCode(a) ==
  CASE a = "AVR" -> AVR_LoadCode [] a = "MSP" -> MSP_LoadCode [] a = "ARM" -> ARM_LoadCode
StoreCode(a) ==
  CASE a = "AVR" -> AVR_StoreCode [] a = "MSP" -> MSP_StoreCode [] a = "ARM" -> ARM_StoreCode
EpilogueCode(a) ==
  CASE a = "AVR" -> AVR_EpilogueCode [] a = "MSP" -> MSP_EpilogueCode [] a = "ARM" -> ARM_EpilogueCode

\* one pass of the loop body, up to and including the decrement
RoundCode(a, s2) ==
  CASE a = "AVR" -> AVR_SubCellsCode \o (IF s2 THEN AVR_AddKeyFlashCode ELSE AVR_AddKeyCode)
                      \o AVR_MixColumnsCode \o AVR_DecCode
    [] a = "MSP" -> MSP_SubAddShiftCode \o MSP_MixColumnsCode \o MSP_DecCode
    [] a = "ARM" -> ARM_SubCellsCode \o ARM_AddKeyCode \o ARM_ShiftRowsCode
                      \o ARM_MixColumnsCode \o ARM_SubsCode

\* the loop: passes of the body until the branch falls through, at most fuel
RECURSIVE Loop(_, _, _, _)
Loop(a, s2, m, fuel) ==
  LET n == Run(a, m, RoundCode(a, s2))
  IN  IF LoopTarget(n.zflag, "sub", "store") = "store" \/ fuel <= 1
        THEN n
        ELSE Loop(a, s2, n, fuel - 1)

\* the machine after n passes of the loop body, m the machine at the loop head
RECURSIVE Passes(_, _, _, _)
Passes(a, s2, m, n) ==
  IF n = 0 THEN m
  ELSE LET t == Run(a, m, RoundCode(a, s2))
       IN  IF t.zflag \in BOOLEAN THEN Passes(a, s2, t, n - 1) ELSE t

AtLoopHead(a, m) == Run(a, Run(a, m, PrologueCode(a)), LoadCode(a))

\* Encrypt, from entry to return
EncryptFn(a, s2, m) ==
  Run(a, Run(a, Loop(a, s2, AtLoopHead(a, m), 256), StoreCode(a)), EpilogueCode(a))

BlockOf(mm) == [i \in 1..BlockLen |-> mm[BlockBase + i - 1]]

----------------------------------------------------------------------------
(* Where each body keeps the 16 cells (cell s_i is element i + 1) *)

\* AVR at the loop head and after MixColumns: the rows in
\* r21 r22 r23 r20 / r8..r11 / r15 r12 r13 r14 / r18 r19 r16 r17
AVR_HeadCells(r) ==
  <<r[21], r[22], r[23], r[20],  r[8],  r[9],  r[10], r[11],
    r[15], r[12], r[13], r[14],  r[18], r[19], r[16], r[17]>>

\* AVR after SubCells and after AddRoundTweakey: r8..r23 in order
AVR_OrderedCells(r) == [i \in 1..BlockLen |-> r[7 + i]]

\* MSP430: r4..r11, low byte first
MSP_Cells(r) ==
  [i \in 1..BlockLen |->
     IF i % 2 = 1 THEN Lo8(r[4 + ((i - 1) \div 2)]) ELSE Hi8(r[4 + ((i - 1) \div 2)])]

\* ARM: r2..r5, least significant byte first
ARM_Cells(r) == [i \in 1..BlockLen |-> r[2 + ((i - 1) \div 4)][((i - 1) % 4) + 1]]

\* the cells of machine m of body a when its next section is p
Cells(a, p, m) ==
  CASE a = "AVR" -> IF p \in {"addkey", "mix"} THEN AVR_OrderedCells(m.regs)
                    ELSE AVR_HeadCells(m.regs)
    [] a = "MSP" -> IF p = "mix" THEN BlockOf(m.mem) ELSE MSP_Cells(m.regs)
    [] a = "ARM" -> ARM_Cells(m.regs)

\* the loop counter and the round-key cursor of each body
Counter(a, r) ==
  CASE a = "AVR" -> r[24] [] a = "MSP" -> r[13] [] a = "ARM" -> ValW(r[8])
KeyCursor(a, r) ==
  CASE a = "AVR" -> AVR_Ptr(r, AVR_Z) [] a = "MSP" -> r[14] [] a = "ARM" -> ValW(r[1])

----------------------------------------------------------------------------
(* The round of spec.md section 4.1, on a sequence of 16 cells *)

Seq16(f) ==
  <<f[1], f[2], f[3], f[4], f[5], f[6], f[7], f[8],
    f[9], f[10], f[11], f[12], f[13], f[14], f[15], f[16]>>

XorCells(s, t) == Seq16([i \in 1..BlockLen |-> Xor8(s[i], t[i])])

\* step 1: s_i := SBOX[s_i]
RefSubCells(s) == Seq16([i \in 1..BlockLen |-> SBOX[s[i] + 1]])

\* step 2: s0..s7 ^= chunk bytes 0..7, s8 ^= 0x02
RefAddKey(s, chunk) ==
  Seq16([i \in 1..BlockLen |->
           IF i <= 8 THEN Xor8(s[i], chunk[i])
           ELSE IF i = 9 THEN Xor8(s[i], 2)
           ELSE s[i]])

\* step 3: row k rotated right by k cells
RefShiftRows(s) ==
  Seq16([i \in 1..BlockLen |->
           LET k == (i - 1) \div 4
               j == (i - 1) % 4
           IN  s[4 * k + ((j - k) % 4) + 1]])

\* step 4 as spec.md states it: per column, in place,
\* row1 ^= row2; row2 ^= row0; row3 ^= row2 (the updated row2)
RefMixInPlace(s) ==
  Seq16([i \in 1..BlockLen |->
           LET k == (i - 1) \div 4
               j == ((i - 1) % 4) + 1
               r2 == Xor8(s[8 + j], s[j])
           IN  CASE k = 0 -> s[j]
                 [] k = 1 -> Xor8(s[4 + j], s[8 + j])
                 [] k = 2 -> r2
                 [] k = 3 -> Xor8(s[12 + j], r2)])

\* the rows moved down by one: the new row 0 is the old row 3, the new
\* row k the old row k - 1
RowsDown(s) == Seq16([i \in 1..BlockLen |-> s[((i - 1 + 12) % 16) + 1]])

\* step 4 with the rows moved as well (SKINNY's MixColumns)
RefMixRows(s) == RowsDown(RefMixInPlace(s))

\* the caller's inputs as sequences
Plain(s) == Seq16([i \in 1..BlockLen |-> PlainByte(s, i - 1)])
Chunk(s, r) == [i \in 1..ChunkLen |-> KeyByte(s, ChunkLen * r + i - 1)]

\* n rounds from round r on, with the in-place MixColumns and with SKINNY's
RECURSIVE RefRoundsInPlace(_, _, _, _)
RefRoundsInPlace(s, ks, r, n) ==
  IF n = 0 THEN s
  ELSE LET t == RefMixInPlace(RefShiftRows(RefAddKey(RefSubCells(s), Chunk(ks, r))))
       IN  IF Len(t) = BlockLen THEN RefRoundsInPlace(t, ks, r + 1, n - 1) ELSE t

RECURSIVE RefRounds(_, _, _, _)
RefRounds(s, ks, r, n) ==
  IF n = 0 THEN s
  ELSE LET t == RefMixRows(RefShiftRows(RefAddKey(RefSubCells(s), Chunk(ks, r))))
       IN  IF Len(t) = BlockLen THEN RefRounds(t, ks, r + 1, n - 1) ELSE t

----------------------------------------------------------------------------
(* C1: the block after Encrypt *)

\* C1 as claimed: after Encrypt the block is the result of 40 rounds of
\* SubCells, AddConstants+AddRoundTweakey, ShiftRows and the in-place
\* MixColumns (row1 ^= row2; row2 ^= row0; row3 ^= row2), byte i being cell s_i.
C1_InPlaceMixResult ==
  pc = "done" => BlockOf(mem) = RefRoundsInPlace(Plain(iseed), iseed, 0, NumRounds)

\* C1 amended: after Encrypt the block is the result of 40 rounds of
\* SubCells, AddConstants+AddRoundTweakey, ShiftRows and a MixColumns that,
\* after the three XORs per column, moves the rows down by one (new row 0 =
\* updated row 3, new row 1 = row 0, new row 2 = updated row 1, new row 3 =
\* updated row 2), byte i of the block being cell s_i on input and output.
C1_EncryptResult ==
  pc = "done" => BlockOf(mem) = RefRounds(Plain(iseed), iseed, 0, NumRounds)

C1_Witness == pc = "done" /\ iseed = 1 /\ arch = "ARM" /\ jseed = 1

----------------------------------------------------------------------------
(* C2: the loop runs 40 times and Encrypt returns *)

InLoop == pc \in {"sub", "addkey", "shift", "mix", "branch"}

\* the counter is 40 less the passes made, inside the loop and on leaving it
CounterTracksRounds ==
  /\ InLoop => Counter(arch, regs) = NumRounds - rounds /\ rounds < NumRounds
  /\ pc = "store" => Counter(arch, regs) = 0
  /\ pc \in {"store", "epilogue", "done"} => rounds = NumRounds
  /\ pc \in {"prologue", "load"} => rounds = 0

\* C2: in every body and for every input the loop body is executed exactly 40
\* times (the counter starts at 40, loses one per pass and the loop is left
\* when it is 0), and Encrypt then returns.
C2_FortyPassesThenReturn == [](CounterTracksRounds) /\ <>(pc = "done")

C2_Witness == pc = "done" /\ rounds = NumRounds /\ arch = "MSP" /\ iseed = 1

----------------------------------------------------------------------------
(* C3: the round keys are read in order, eight bytes a round *)

\* bytes of roundKeys consumed so far
Consumed ==
  IF pc \in {"shift", "mix", "branch"} THEN ChunkLen * (rounds + 1) ELSE ChunkLen * rounds

\* C3: at the start of round r the cursor is 8r past the roundKeys base, the
\* round reads bytes 8r..8r+7 and leaves the cursor 8 further; over the call
\* bytes 0..319 are read once each in ascending order and nothing at or past
\* offset 320 is read.
C3_KeyCursor ==
  /\ keyReads = [i \in 1..Consumed |-> i - 1]
  /\ Consumed <= KeyLen
  /\ (InLoop \/ pc = "store") => KeyCursor(arch, regs) = KeyBase + Consumed
  /\ pc = "done" => Consumed = KeyLen

C3_Witness ==
  /\ pc = "done"
  /\ Len(keyReads) = KeyLen
  /\ keyReads[KeyLen] = KeyLen - 1
  /\ arch = "AVR"

----------------------------------------------------------------------------
(* C4: only the block is written *)

\* C4: at every step of Encrypt every byte of roundKeys and of the SBOX table
\* (and every guard byte around the buffers) has the value it had at entry.
C4_OnlyBlockWritten ==
  LET m0 == InitMem(iseed, scenario2)
  IN  \A a \in Addr \ BlockAddrs : mem[a] = m0[a]

C4_Witness ==
  /\ pc = "done"
  /\ BlockOf(mem) # Plain(iseed)
  /\ arch = "MSP"
  /\ jseed = 0

----------------------------------------------------------------------------
(* C5: the three bodies compute the same function *)

\* the builds compared with the one that is running
OtherBuilds == {<<b, FALSE>> : b \in Archs \ {arch}}

\* machines m (build b) and n (the running build), both at the loop head,
\* hold the same cells now and after each of the next k passes
RECURSIVE InStep(_, _, _, _)
InStep(b, m, n, k) ==
  /\ Cells(b[1], "sub", m) = Cells(arch, "sub", n)
  /\ \/ k = 0
     \/ InStep(b, Passes(b[1], b[2], m, 1), Passes(arch, scenario2, n, 1), k - 1)

\* C5: for the same block, roundKeys and SBOX the bodies write the same 16
\* bytes, and after every round they hold the same cells, each under its own
\* register-to-cell mapping.
C5_BodiesAgree ==
  pc = "done" =>
    \A b \in OtherBuilds :
      /\ BlockOf(mem) = BlockOf(EncryptFn(b[1], b[2], EntryMachine(b[1], b[2], iseed, jseed)).mem)
      /\ InStep(b, AtLoopHead(b[1], EntryMachine(b[1], b[2], iseed, jseed)),
                AtLoopHead(arch, EntryMachine(arch, scenario2, iseed, jseed)), NumRounds)

C5_Witness == pc = "done" /\ arch = "AVR" /\ scenario2 /\ iseed = 1

----------------------------------------------------------------------------
(* C6: the result does not depend on what the registers held *)

\* C6: a run of the same body with the same block, roundKeys and SBOX ends
\* with the same block bytes whatever the registers and the flag held at entry.
C6_Deterministic ==
  pc = "done" =>
    \A j \in 0..MaxJunkSeed :
      BlockOf(mem) = BlockOf(EncryptFn(arch, scenario2, EntryMachine(arch, scenario2, iseed, j)).mem)

C6_Witness == pc = "done" /\ jseed = 1 /\ arch = "ARM" /\ iseed = 0

----------------------------------------------------------------------------
(* C8, C9: ShiftRows and AddConstants+AddRoundTweakey inside a round *)

\* where ShiftRows puts cell i (row k moves right by k)
ShiftedIndex(i) ==
  LET k == (i - 1) \div 4
      j == (i - 1) % 4
  IN  4 * k + ((j + k) % 4) + 1

\* ARM rotates r3, r4, r5.  AVR moves nothing: its MixColumns takes the cells
\* of a column from the registers ShiftRows would have put them in.  MSP430
\* stores each cell at its shifted place in the block while substituting.
ShiftRowsStep ==
  /\ (arch = "ARM" /\ pc = "shift") =>
       ARM_Cells(regs') = RefShiftRows(ARM_Cells(regs))
  /\ (arch = "AVR" /\ pc = "mix") =>
       AVR_HeadCells(regs') = RefMixRows(RefShiftRows(AVR_OrderedCells(regs)))
  /\ (arch = "MSP" /\ pc = "sub") =>
       BlockOf(mem') =
         RefShiftRows(RefAddKey(RefSubCells(MSP_Cells(regs)), Chunk(iseed, rounds)))

\* C8: in every round of every body ShiftRows leaves row 0 as it is and makes
\* row 1 s7,s4,s5,s6, row 2 s10,s11,s8,s9 and row 3 s13,s14,s15,s12, s_i the
\* cells after AddConstants+AddRoundTweakey.
C8_ShiftRows == [][ShiftRowsStep]_vars

C8_Witness == pc = "mix" /\ arch = "ARM" /\ rounds = NumRounds - 1 /\ iseed = 1

AddKeyStep ==
  /\ (arch \in {"AVR", "ARM"} /\ pc = "addkey") =>
       Cells(arch, "mix", [regs |-> regs', mem |-> mem']) =
         RefAddKey(Cells(arch, "addkey", Cur), Chunk(iseed, rounds))
  /\ (arch = "MSP" /\ pc = "sub") =>
       \A i \in 1..BlockLen :
         mem'[BlockBase + ShiftedIndex(i) - 1] =
           RefAddKey(RefSubCells(MSP_Cells(regs)), Chunk(iseed, rounds))[i]

\* C9: in every round of every body key byte i is XORed into the substituted
\* cell s_i for i = 0..7 (in the MSP430 body as the cell is stored at its
\* shifted place), 0x02 is XORed into s8, and s9..s15 keep their SubCells value.
C9_AddRoundTweakey == [][AddKeyStep]_vars

C9_Witness == pc = "mix" /\ arch = "MSP" /\ rounds = NumRounds - 1 /\ iseed = 1

----------------------------------------------------------------------------
(* MixColumns as a function of the cells: a specification of its own *)

MixColumnsCode(a) ==
  CASE a = "AVR" -> AVR_MixColumnsCode
    [] a = "MSP" -> MSP_MixColumnsCode
    [] a = "ARM" -> ARM_MixColumnsCode

\* AVR before MixColumns, rows as its columns pair them:
\* r8..r11 / r15 r12 r13 r14 / r18 r19 r16 r17 / r21 r22 r23 r20
AVR_ShiftedRegs == <<8, 9, 10, 11, 15, 12, 13, 14, 18, 19, 16, 17, 21, 22, 23, 20>>

\* the cells MixColumns is about to read
PreMixCells(a, m) ==
  CASE a = "AVR" -> [i \in 1..BlockLen |-> m.regs[AVR_ShiftedRegs[i]]]
    [] a = "MSP" -> BlockOf(m.mem)
    [] a = "ARM" -> ARM_Cells(m.regs)

\* f with f[where[k]] = s[k] for k = n..Len(where)
RECURSIVE PutAt(_, _, _, _)
PutAt(f, where, s, n) ==
  IF n > Len(where) THEN f
  ELSE PutAt([f EXCEPT ![where[n]] = s[n]], where, s, n + 1)

BlockSeq == <<BlockBase, BlockBase + 1, BlockBase + 2, BlockBase + 3,
              BlockBase + 4, BlockBase + 5, BlockBase + 6, BlockBase + 7,
              BlockBase + 8, BlockBase + 9, BlockBase + 10, BlockBase + 11,
              BlockBase + 12, BlockBase + 13, BlockBase + 14, BlockBase + 15>>

\* machine m of body a with the cells MixColumns is about to read set to s
PutCells(a, m, s) ==
  CASE a = "AVR" -> [m EXCEPT !.regs = PutAt(@, AVR_ShiftedRegs, s, 1)]
    [] a = "MSP" -> [m EXCEPT !.mem = PutAt(@, BlockSeq, s, 1)]
    [] a = "ARM" ->
         [m EXCEPT !.regs = [@ EXCEPT ![2] = <<s[1], s[2], s[3], s[4]>>,
                                      ![3] = <<s[5], s[6], s[7], s[8]>>,
                                      ![4] = <<s[9], s[10], s[11], s[12]>>,
                                      ![5] = <<s[13], s[14], s[15], s[16]>>]]

\* differences tried: rows picked by mask, in column col (col = 4: in every
\* column), the byte chosen by seed
MaxDeltaSeed == 1
DeltaByte(k) == (127 * k + 1) % 256
Delta(col, mask, k) ==
  Seq16([i \in 1..BlockLen |->
           IF (col = 4 \/ (i - 1) % 4 = col) /\ (mask \div Pow2((i - 1) \div 4)) % 2 = 1
             THEN (DeltaByte(k) + 16 * ((i - 1) % 4)) % 256
             ELSE 0])

ZeroCells == Seq16([i \in 1..BlockLen |-> 0])

MixInit ==
  /\ arch \in Archs
  /\ scenario2 = FALSE
  /\ iseed \in 0..MaxInputSeed
  /\ jseed = 0
  /\ pc = "mix"
  /\ rounds = 0
  /\ \E col \in 0..4, mask \in 1..15, k \in 0..MaxDeltaSeed :
       LET m == AtLoopHead(arch, EntryMachine(arch, FALSE, iseed, 0))
           a == Plain(iseed)
           d == Delta(col, mask, k)
           ma == PutCells(arch, m, a)
       IN  /\ regs = ma.regs
           /\ zflag = ma.zflag
           /\ mem = ma.mem
           /\ stack = ma.stack
           /\ keyReads = ma.keyReads
           /\ twin = [moved |-> PutCells(arch, m, XorCells(a, d)),
                      diff |-> PutCells(arch, m, d),
                      delta |-> d]

\* MixColumns of the running body on the machine and on its twins
MixApply ==
  /\ pc = "mix"
  /\ Exec(arch, MixColumnsCode(arch))
  /\ twin' = [twin EXCEPT !.moved = Run(arch, @, MixColumnsCode(arch)),
                          !.diff = Run(arch, @, MixColumnsCode(arch))]
  /\ pc' = "branch"
  /\ UNCHANGED <<arch, scenario2, rounds, iseed, jseed>>

MixSpec == MixInit /\ [][MixApply]_vars

\* the columns the two states differ in
DeltaColumns == {c \in 0..3 : \E i \in 1..BlockLen : (i - 1) % 4 = c /\ twin.delta[i] # 0}

\* C7: two states that differ only in the cells of one column before
\* MixColumns agree after it on every cell of the other three columns.
C7_ColumnIndependence ==
  (pc = "branch" /\ Cardinality(DeltaColumns) = 1) =>
    \A i \in 1..BlockLen :
      (i - 1) % 4 \notin DeltaColumns =>
        Cells(arch, "branch", Cur)[i] = Cells(arch, "branch", twin.moved)[i]

C7_Witness ==
  /\ pc = "branch"
  /\ DeltaColumns = {2}
  /\ Cells(arch, "branch", Cur) # Cells(arch, "branch", twin.moved)
  /\ arch = "MSP"

\* C10: MixColumns is one-to-one (two distinct states before it are distinct
\* after it) and linear over XOR: Mix(a xor d) = Mix(a) xor Mix(d).
C10_MixInvertibleLinear ==
  pc = "branch" =>
    /\ Cells(arch, "branch", Cur) # Cells(arch, "branch", twin.moved)
    /\ Cells(arch, "branch", twin.moved) =
         XorCells(Cells(arch, "branch", Cur), Cells(arch, "branch", twin.diff))

C10_Witness ==
  /\ pc = "branch"
  /\ Cardinality(DeltaColumns) = 4
  /\ twin.delta # ZeroCells
  /\ arch = "AVR"
  /\ iseed = 1

----------------------------------------------------------------------------
(* C11: what the block buffer holds while Encrypt runs *)

\* the cells after r full rounds, and after SubCells, AddConstants,
\* AddRoundTweakey and ShiftRows of the round that follows them
AfterRounds(r) == RefRounds(Plain(iseed), iseed, 0, r)
MidRound(r) ==
  RefShiftRows(RefAddKey(RefSubCells(AfterRounds(r)), Chunk(iseed, r)))

\* C11 as claimed: in every body the block buffer holds the plaintext until
\* the 40th round has completed and is written only then, with the ciphertext.
C11_PlaintextUntilStore ==
  /\ pc \notin {"epilogue", "done"} => BlockOf(mem) = Plain(iseed)
  /\ pc \in {"epilogue", "done"} => BlockOf(mem) = AfterRounds(NumRounds)

\* C11 amended: in the AVR and ARM bodies the block buffer holds the
\* plaintext until the 40th round has completed and is written only then,
\* with the ciphertext.  The MSP430 body stores the cells into the block
\* buffer in every round: from the first round on the buffer holds the cells
\* of the current round after SubCells, AddConstants+AddRoundTweakey and
\* ShiftRows, and it holds the ciphertext only after the stores that follow
\* the 40th round.
C11_BlockBuffer ==
  /\ pc \in {"epilogue", "done"} => BlockOf(mem) = AfterRounds(NumRounds)
  /\ (arch # "MSP" /\ pc \notin {"epilogue", "done"}) => BlockOf(mem) = Plain(iseed)
  /\ (arch = "MSP" /\ pc \in {"prologue", "load"}) => BlockOf(mem) = Plain(iseed)
  /\ (arch = "MSP" /\ pc = "sub" /\ rounds = 0) => BlockOf(mem) = Plain(iseed)
  /\ (arch = "MSP" /\ pc = "sub" /\ rounds > 0) => BlockOf(mem) = MidRound(rounds - 1)
  /\ (arch = "MSP" /\ pc \in {"mix", "branch"}) => BlockOf(mem) = MidRound(rounds)
  /\ (arch = "MSP" /\ pc = "store") => BlockOf(mem) = MidRound(NumRounds - 1)

C11_Witness ==
  /\ arch = "MSP"
  /\ pc = "branch"
  /\ rounds = 20
  /\ iseed = 1
  /\ BlockOf(mem) # Plain(iseed)
  /\ BlockOf(mem) # AfterRounds(rounds + 1)

----------------------------------------------------------------------------
(* C12: the SBOX lookups of the AVR body *)

NumLookups == 16

\* the register whose value at the head of the round lookup k substitutes:
\* the register moved into r28, r8 and r9 for their copies r6 and r7
AVR_LookupCell(k) ==
  LET s == AVR_SubCellsCode[2 * k][3]
  IN  IF s = 6 THEN 8 ELSE IF s = 7 THEN 9 ELSE s

\* the machine when lookup k is about to load, and when it has loaded
AVR_AtLookup(k) == RunRange("AVR", Cur, AVR_SubCellsCode, 1, 2 * k)
AVR_PastLookup(k) == RunRange("AVR", Cur, AVR_SubCellsCode, 1, 2 * k + 1)

AVR_LookupsStep ==
  /\ (arch = "AVR" /\ InLoop) =>
       regs[AVR_Y + 1] = Hi8(SboxBase) /\ regs'[AVR_Y + 1] = Hi8(SboxBase)
  /\ (arch = "AVR" /\ pc = "sub" /\ Lo8(SboxBase) = 0) =>
       /\ \A k \in 1..NumLookups :
            LET v == regs[AVR_LookupCell(k)]
            IN  /\ AVR_AtLookup(k).regs[AVR_Y + 1] = Hi8(SboxBase)
                /\ AVR_AtLookup(k).regs[AVR_Y] = v
                /\ AVR_Ptr(AVR_AtLookup(k).regs, AVR_Y) = SboxBase + v
                /\ AVR_PastLookup(k).regs[AVR_SubCellsCode[2 * k + 1][2]] = SBOX[v + 1]
       /\ {AVR_LookupCell(k) : k \in 1..NumLookups} = 8..23
       /\ AVR_OrderedCells(regs') = RefSubCells(AVR_HeadCells(regs))

\* C12: in the AVR body, with SBOX at a 256-byte-aligned address, at each of
\* the 16 lookups of each round Y has high byte hi8(SBOX), which is set before
\* the loop and not changed inside it, and low byte the value v the cell had
\* at the head of the round (r8 and r9 through their copies r6 and r7), so
\* the byte loaded is SBOX[v].
C12_SboxLookups == [][AVR_LookupsStep]_vars

C12_Witness ==
  /\ arch = "AVR"
  /\ scenario2
  /\ pc = "addkey"
  /\ rounds = NumRounds - 1
  /\ iseed = 2
  /\ regs[AVR_Y + 1] = Hi8(SboxBase)

----------------------------------------------------------------------------
(* C13: the registers saved and restored *)

\* the registers the prologue saves, in the order they go onto the stack
\* (stmdb stores the highest register first)
SavedRegs(a) ==
  CASE a = "AVR" -> [i \in 1..Len(AVR_PrologueCode) |-> AVR_PrologueCode[i][2]]
    [] a = "MSP" -> [i \in 1..Len(MSP_PrologueCode) |-> MSP_PrologueCode[i][2]]
    [] a = "ARM" -> [i \in 1..(ARM_PrologueCode[1][3] - ARM_PrologueCode[1][2] + 1) |->
                       ARM_PrologueCode[1][3] - i + 1]

\* the registers the epilogue restores, in the order they leave the stack
\* (ldmia loads the lowest register first)
RestoredRegs(a) ==
  CASE a = "AVR" -> [i \in 1..Len(AVR_EpilogueCode) |-> AVR_EpilogueCode[i][2]]
    [] a = "MSP" -> [i \in 1..Len(MSP_EpilogueCode) |-> MSP_EpilogueCode[i][2]]
    [] a = "ARM" -> [i \in 1..(ARM_EpilogueCode[1][3] - ARM_EpilogueCode[1][2] + 1) |->
                       ARM_EpilogueCode[1][2] + i - 1]

Reverse(s) == [i \in 1..Len(s) |-> s[Len(s) - i + 1]]

\* the registers C13 lists for each body
ListedRegs(a) ==
  CASE a = "AVR" -> (6..17) \cup {28, 29}
    [] a = "MSP" -> 4..11
    [] a = "ARM" -> 2..10

\* what the stack holds between prologue and epilogue
SavedValues == [i \in 1..Len(SavedRegs(arch)) |-> EntryRegs(arch, jseed)[SavedRegs(arch)[i]]]

\* C13: each body saves the listed registers in its prologue and restores
\* them in the reverse order in its epilogue, nothing between the two touches
\* the stack, and at return the stack pointer and every saved register hold
\* the values they had at entry.
C13_SaveRestore ==
  /\ {SavedRegs(arch)[i] : i \in 1..Len(SavedRegs(arch))} = ListedRegs(arch)
  /\ RestoredRegs(arch) = Reverse(SavedRegs(arch))
  /\ pc = "prologue" => stack = <<>>
  /\ pc \notin {"prologue", "done"} => stack = SavedValues
  /\ pc = "done" =>
       /\ stack = <<>>
       /\ \A r \in ListedRegs(arch) : regs[r] = EntryRegs(arch, jseed)[r]

C13_Witness ==
  /\ pc = "done"
  /\ arch = "MSP"
  /\ jseed = 1
  /\ iseed = 2
  /\ stack = <<>>
  /\ regs[4] # regs[5]
====
